---- MODULE Spec2Model ----
(***************************************************************************)
(* Model of geo_data_tiler's Tiler (src/src/tiler.rs): add_coordinate      *)
(* counts coordinates per full-precision binary hash, get_tiles merges the *)
(* count table level by level into tiles.                                  *)
(*                                                                         *)
(* A binary hash is a sequence of bits (the '0'/'1' characters of the      *)
(* String).  Degrees are kept in thousandths, so every bisection midpoint  *)
(* down to precision 11 is an integer.  The u64 capacity is kept in a word *)
(* of WordBits bits: TLC's integers are 32 bits wide, and the i64 node     *)
(* counts of the model stay far below the largest capacity, as they do in  *)
(* the program.                                                            *)
(***************************************************************************)
EXTENDS Integers, Sequences, FiniteSets, TLC

VARIABLES
    binary_hash_precision,                \* Tiler.binary_hash_precision (u8)
    max_allowed_features_in_binary_hash,  \* Tiler.max_allowed_features_in_binary_hash (u64)
    binary_hash_count,                    \* Tiler.binary_hash_count (HashMap<String, i64>)
    overflow_checks,                      \* build profile: TRUE = `+` panics on overflow, FALSE = it wraps
    pc,                                   \* "idle" | "loop" | "done" | "panicked"
    i,                                    \* loop index of get_tiles (0-based)
    binary_hash_count_df,                 \* get_tiles' local data frame: rows in order
    binary_hash_tiles,                    \* get_tiles' local / returned HashMap<String, BinaryHashTile>
    leaf_keys,                            \* history: keys inserted by the loop after the levels
    added,                                \* history: how often each coordinate was passed to add_coordinate
    previous                              \* history: <<map>> returned by the latest get_tiles since the last add

vars == <<binary_hash_precision, max_allowed_features_in_binary_hash, binary_hash_count,
          overflow_checks, pc, i, binary_hash_count_df, binary_hash_tiles, leaf_keys,
          added, previous>>

----------------------------------------------------------------------------
(* Bounds of the model *)

MaxPrecision == 3
MaxAdds == 3
MaxCapacity == 2
WordBits == 24

(* Constants of the program's test *)

ScenarioPrecision == 11
ScenarioCapacity == 10000000

----------------------------------------------------------------------------
(* Integers *)

RECURSIVE Pow2(_)
Pow2(n) == IF n = 0 THEN 1 ELSE 2 * Pow2(n - 1)

U64Max == Pow2(WordBits) - 1

Precisions == 1..MaxPrecision

Capacities == (0..MaxCapacity) \cup {ScenarioCapacity, U64Max - 1, U64Max}

----------------------------------------------------------------------------
(* The binary hash codec (geohashrust, used at tiler.rs:28, 95, 123) *)

WorldBox == [min_lon |-> -180000, min_lat |-> -90000, max_lon |-> 180000, max_lat |-> 90000]

Mid(lo, hi) == (lo + hi) \div 2

RECURSIVE EncodeFrom(_, _, _, _)
EncodeFrom(location, box, islon, n) ==
    IF n = 0 THEN <<>>
    ELSE IF islon
         THEN LET mid == Mid(box.min_lon, box.max_lon)
              IN  IF location.longitude > mid
                  THEN <<1>> \o EncodeFrom(location, [box EXCEPT !.min_lon = mid], FALSE, n - 1)
                  ELSE <<0>> \o EncodeFrom(location, [box EXCEPT !.max_lon = mid], FALSE, n - 1)
         ELSE LET mid == Mid(box.min_lat, box.max_lat)
              IN  IF location.latitude > mid
                  THEN <<1>> \o EncodeFrom(location, [box EXCEPT !.min_lat = mid], TRUE, n - 1)
                  ELSE <<0>> \o EncodeFrom(location, [box EXCEPT !.max_lat = mid], TRUE, n - 1)

Encode(location, precision) == EncodeFrom(location, WorldBox, TRUE, precision)

RECURSIVE DecodeFrom(_, _, _)
DecodeFrom(bits, box, islon) ==
    IF bits = <<>> THEN box
    ELSE IF islon
         THEN LET mid == Mid(box.min_lon, box.max_lon)
              IN  DecodeFrom(Tail(bits),
                             IF Head(bits) = 1 THEN [box EXCEPT !.min_lon = mid]
                                               ELSE [box EXCEPT !.max_lon = mid], FALSE)
         ELSE LET mid == Mid(box.min_lat, box.max_lat)
              IN  DecodeFrom(Tail(bits),
                             IF Head(bits) = 1 THEN [box EXCEPT !.min_lat = mid]
                                               ELSE [box EXCEPT !.max_lat = mid], TRUE)

Decode(bits) == DecodeFrom(bits, WorldBox, TRUE)

----------------------------------------------------------------------------
(* Inputs *)

GeoLocation(lat, lon) == [latitude |-> lat, longitude |-> lon]

GridCoordinates ==
    {GeoLocation(lat, lon) : lat \in {-30000, 30000}, lon \in {-135000, -45000, 45000, 135000}}

ScenarioCoordinates ==
    {GeoLocation(1000, 1000), GeoLocation(1000, 2000), GeoLocation(2000, 3000),
     GeoLocation(4000, 1000), GeoLocation(1500, 1500)}

Coordinates == GridCoordinates \cup ScenarioCoordinates

RECURSIVE SumOver(_, _)
SumOver(S, f) ==
    IF S = {} THEN 0
    ELSE LET x == CHOOSE y \in S : TRUE IN f[x] + SumOver(S \ {x}, f)

NumberOfAdds == SumOver(Coordinates, added)

----------------------------------------------------------------------------
(* Maps and data frames *)

EmptyMap == <<>>

Insert(map, key, value) ==
    [k \in DOMAIN map \cup {key} |-> IF k = key THEN value ELSE map[k]]

\* Mutant of Increment: the entry is set to 1 instead of being incremented
IncrementOverwriting(map, key) == Insert(map, key, 1)

\* HashMap::entry(key).or_insert(0) += 1
Increment(map, key) ==
    Insert(map, key, (IF key \in DOMAIN map THEN map[key] ELSE 0) + 1)

\* The orders a set can be enumerated in
Orderings(S) ==
    {s \in [1..Cardinality(S) -> S] : \A a, b \in 1..Cardinality(S) : a # b => s[a] # s[b]}

Reverse(s) == [j \in 1..Len(s) |-> s[Len(s) + 1 - j]]

RECURSIVE Flatten(_)
Flatten(ss) == IF ss = <<>> THEN <<>> ELSE Head(ss) \o Flatten(Tail(ss))

RECURSIVE SumSeq(_)
SumSeq(s) == IF s = <<>> THEN 0 ELSE Head(s) + SumSeq(Tail(s))

Row(hash, count) == [binary_hash |-> hash, node_count |-> count]

BinaryHashTile(count, box) ==
    [node_count |-> count, min_lon |-> box.min_lon, min_lat |-> box.min_lat,
     max_lon |-> box.max_lon, max_lat |-> box.max_lat]

----------------------------------------------------------------------------
(* get_tiles, one loop iteration (tiler.rs:43-105) *)

Prefix(binary_hash_value, n) == SubSeq(binary_hash_value, 1, n)

\* lines 44-52: the column of sliced hashes, as the set of its distinct values
SlicedBinaryHashes(df, n) == {Prefix(df[j].binary_hash, n) : j \in 1..Len(df)}

\* the rows of one group, in the frame's order
GroupRows(df, n, sliced) ==
    LET InGroup(row) == Prefix(row.binary_hash, n) = sliced
    IN  SelectSeq(df, InGroup)

\* Mutant of GroupedRow: the aggregate counts the rows instead of summing node_count
GroupedRowCountingRows(df, n, sliced) ==
    LET rows == GroupRows(df, n, sliced)
    IN  [sliced_binary_hash |-> sliced,
         total_node_count   |-> Len(rows),
         binary_hashes      |-> Reverse([j \in 1..Len(rows) |-> rows[j].binary_hash])]

\* lines 54-61: one row of grouped_binary_hash_df
GroupedRow(df, n, sliced) ==
    LET rows == GroupRows(df, n, sliced)
    IN  [sliced_binary_hash |-> sliced,
         total_node_count   |-> SumSeq([j \in 1..Len(rows) |-> rows[j].node_count]),
         binary_hashes      |-> Reverse([j \in 1..Len(rows) |-> rows[j].binary_hash])]

\* lines 54-61: group_by does not keep an order; `order` is the one it produced
GroupBy(df, n, order) == [j \in 1..Len(order) |-> GroupedRow(df, n, order[j])]

\* line 65: col("total_node_count").gt(lit(max_allowed_features_in_binary_hash))
OverCapacity(total_node_count, capacity) == total_node_count > capacity

\* line 76: max_allowed_features_in_binary_hash + 1 on a u64, when it wraps
CapacityPlusOne(capacity) == (capacity + 1) % Pow2(WordBits)

\* line 76: whether that addition overflows the u64
PlusOneOverflows(capacity) == capacity + 1 > U64Max

\* Mutant of WithinCapacity: the comparison is <= instead of <
WithinCapacityInclusive(total_node_count, capacity) ==
    total_node_count <= CapacityPlusOne(capacity)

\* line 76: col("total_node_count").lt(lit(max_allowed_features_in_binary_hash + 1))
WithinCapacity(total_node_count, capacity) == total_node_count < CapacityPlusOne(capacity)

\* lines 62-66
BinaryHashesOverMaxAllowedFeatures(grouped, capacity) ==
    LET Over(g) == OverCapacity(g.total_node_count, capacity)
    IN  SelectSeq(grouped, Over)

\* Mutant of Explode: only the first hash of each list is kept
ExplodeFirstOnly(grouped) == [j \in 1..Len(grouped) |-> grouped[j].binary_hashes[1]]

\* lines 67-69: explode the list column, keep only the hash column
Explode(grouped) == Flatten([j \in 1..Len(grouped) |-> grouped[j].binary_hashes])

\* line 70: left join on binary_hash against the frame of this iteration
LeftJoin(hashes, df) ==
    Flatten([j \in 1..Len(hashes) |->
                LET Matches(row) == row.binary_hash = hashes[j]
                IN  SelectSeq(df, Matches)])

\* Mutant of NextBinaryHashCountDf: the finalized groups are not dropped
NextBinaryHashCountDfKeepingAll(df, grouped, capacity) == df

\* lines 62-71: the frame carried into the next iteration
NextBinaryHashCountDf(df, grouped, capacity) ==
    LeftJoin(Explode(BinaryHashesOverMaxAllowedFeatures(grouped, capacity)), df)

\* lines 73-78
BinaryHashesUnderMaxAllowedFeatures(grouped, capacity) ==
    LET Under(g) == WithinCapacity(g.total_node_count, capacity)
    IN  SelectSeq(grouped, Under)

\* lines 91-104: one tile per row, inserted in the rows' order
RECURSIVE InsertGroupTiles(_, _)
InsertGroupTiles(tiles, under) ==
    IF under = <<>> THEN tiles
    ELSE InsertGroupTiles(
             Insert(tiles, Head(under).sliced_binary_hash,
                    BinaryHashTile(Head(under).total_node_count,
                                   Decode(Head(under).sliced_binary_hash))),
             Tail(under))

\* lines 119-132: one tile per remaining row
RECURSIVE InsertLeafTiles(_, _)
InsertLeafTiles(tiles, df) ==
    IF df = <<>> THEN tiles
    ELSE InsertLeafTiles(
             Insert(tiles, Head(df).binary_hash,
                    BinaryHashTile(Head(df).node_count, Decode(Head(df).binary_hash))),
             Tail(df))

----------------------------------------------------------------------------
(* Actions *)

Callable == pc \in {"idle", "done"}

\* Tiler::add_coordinate; the caller has dropped the map of an earlier get_tiles
AddCoordinate(location) ==
    /\ Callable
    /\ binary_hash_count' =
           Increment(binary_hash_count, Encode(location, binary_hash_precision))
    /\ added' = [added EXCEPT ![location] = @ + 1]
    /\ pc' = "idle"
    /\ i' = 0
    /\ binary_hash_count_df' = <<>>
    /\ binary_hash_tiles' = EmptyMap
    /\ leaf_keys' = {}
    /\ previous' = <<>>
    /\ UNCHANGED <<binary_hash_precision, max_allowed_features_in_binary_hash, overflow_checks>>

Add ==
    \E location \in GridCoordinates :
        /\ NumberOfAdds < MaxAdds
        /\ AddCoordinate(location)

AddScenario ==
    \E location \in ScenarioCoordinates :
        /\ added[location] = 0
        /\ AddCoordinate(location)

\* Mutant of GetTilesBegin: the map is taken out of the Tiler instead of cloned
GetTilesBeginTaking ==
    /\ Callable
    /\ \E order \in Orderings(DOMAIN binary_hash_count) :
           binary_hash_count_df' =
               [j \in 1..Len(order) |-> Row(order[j], binary_hash_count[order[j]])]
    /\ binary_hash_count' = EmptyMap
    /\ binary_hash_tiles' = EmptyMap
    /\ leaf_keys' = {}
    /\ i' = 0
    /\ pc' = "loop"
    /\ previous' = IF pc = "done" THEN <<binary_hash_tiles>> ELSE previous
    /\ UNCHANGED <<binary_hash_precision, max_allowed_features_in_binary_hash,
                   overflow_checks, added>>

\* get_tiles, lines 33-41: both clones of the map are iterated in the same order
GetTilesBegin ==
    /\ Callable
    /\ \E order \in Orderings(DOMAIN binary_hash_count) :
           binary_hash_count_df' =
               [j \in 1..Len(order) |-> Row(order[j], binary_hash_count[order[j]])]
    /\ binary_hash_tiles' = EmptyMap
    /\ leaf_keys' = {}
    /\ i' = 0
    /\ pc' = "loop"
    /\ previous' = IF pc = "done" THEN <<binary_hash_tiles>> ELSE previous
    /\ UNCHANGED <<binary_hash_precision, max_allowed_features_in_binary_hash,
                   binary_hash_count, overflow_checks, added>>

\* get_tiles, lines 43-105: iteration i of the loop
GetTilesLevel ==
    /\ pc = "loop"
    /\ i < binary_hash_precision
    /\ ~(overflow_checks /\ PlusOneOverflows(max_allowed_features_in_binary_hash))
    /\ \E order \in Orderings(SlicedBinaryHashes(binary_hash_count_df, i + 1)) :
           LET grouped == GroupBy(binary_hash_count_df, i + 1, order)
           IN  /\ binary_hash_count_df' =
                      NextBinaryHashCountDf(binary_hash_count_df, grouped,
                                            max_allowed_features_in_binary_hash)
               /\ binary_hash_tiles' =
                      InsertGroupTiles(binary_hash_tiles,
                          BinaryHashesUnderMaxAllowedFeatures(grouped,
                              max_allowed_features_in_binary_hash))
    /\ i' = i + 1
    /\ UNCHANGED <<binary_hash_precision, max_allowed_features_in_binary_hash,
                   binary_hash_count, overflow_checks, pc, leaf_keys, added, previous>>

\* get_tiles, line 76 in a build with overflow checks: the addition panics
GetTilesOverflow ==
    /\ pc = "loop"
    /\ i < binary_hash_precision
    /\ overflow_checks
    /\ PlusOneOverflows(max_allowed_features_in_binary_hash)
    /\ pc' = "panicked"
    /\ UNCHANGED <<binary_hash_precision, max_allowed_features_in_binary_hash,
                   binary_hash_count, overflow_checks, i, binary_hash_count_df,
                   binary_hash_tiles, leaf_keys, added, previous>>

\* get_tiles, lines 107-134: the rows left after the last level, and the return
GetTilesLeaves ==
    /\ pc = "loop"
    /\ i = binary_hash_precision
    /\ binary_hash_tiles' = InsertLeafTiles(binary_hash_tiles, binary_hash_count_df)
    /\ leaf_keys' = {binary_hash_count_df[j].binary_hash : j \in 1..Len(binary_hash_count_df)}
    /\ pc' = "done"
    /\ UNCHANGED <<binary_hash_precision, max_allowed_features_in_binary_hash,
                   binary_hash_count, overflow_checks, i, binary_hash_count_df,
                   added, previous>>

----------------------------------------------------------------------------
(* Specifications *)

\* Tiler::new, lines 15-21.  The build profile only shows when line 76 overflows.
New(precisions) ==
    /\ binary_hash_precision \in precisions
    /\ max_allowed_features_in_binary_hash \in Capacities
    /\ binary_hash_count = EmptyMap
    /\ overflow_checks \in
           IF PlusOneOverflows(max_allowed_features_in_binary_hash) THEN BOOLEAN ELSE {FALSE}
    /\ pc = "idle"
    /\ i = 0
    /\ binary_hash_count_df = <<>>
    /\ binary_hash_tiles = EmptyMap
    /\ leaf_keys = {}
    /\ added = [location \in Coordinates |-> 0]
    /\ previous = <<>>

Init == New(Precisions)

Next == Add \/ GetTilesBegin \/ GetTilesLevel \/ GetTilesOverflow \/ GetTilesLeaves

Spec == Init /\ [][Next]_vars

\* the test's configuration: precision 11 and the coordinates of it_works
InitScenario == New({ScenarioPrecision})

NextScenario ==
    AddScenario \/ GetTilesBegin \/ GetTilesLevel \/ GetTilesOverflow \/ GetTilesLeaves

SpecScenario == InitScenario /\ [][NextScenario]_vars

----------------------------------------------------------------------------
(* Vocabulary of the properties *)

Keys == DOMAIN binary_hash_count

TileKeys == DOMAIN binary_hash_tiles

Returned == pc = "done"

IsPrefix(k, h) == Len(k) <= Len(h) /\ SubSeq(h, 1, Len(k)) = k

\* the keys of the count table below a prefix, and the number of coordinates they count
KeysUnder(k) == {h \in Keys : IsPrefix(k, h)}

TrueSum(k) == SumOver(KeysUnder(k), binary_hash_count)

TilesTotal == SumOver(TileKeys, [k \in TileKeys |-> binary_hash_tiles[k].node_count])

\* the data frame read as a table
DfTable == {binary_hash_count_df[j] : j \in 1..Len(binary_hash_count_df)}

CountTable == {Row(h, binary_hash_count[h]) : h \in Keys}

----------------------------------------------------------------------------
(* C1 - Conservation: whenever get_tiles has returned, the node_count values
   of the returned map sum to the number of add_coordinate calls made so far,
   for every precision and every capacity of the u64 range. *)
C1_Conservation == Returned => TilesTotal = NumberOfAdds

(* C2 - Prefix coverage: in the returned map every full-precision key of
   binary_hash_count has exactly one tile key that is a prefix of it. *)
C2_PrefixCoverage ==
    Returned => \A h \in Keys : Cardinality({k \in TileKeys : IsPrefix(k, h)}) = 1

(* C3 - True sum per tile: the node_count of every tile in the map equals the
   sum of the counts of all full-precision keys of binary_hash_count that
   have the tile's key as a prefix. *)
C3_TrueSum ==
    \A k \in TileKeys : binary_hash_tiles[k].node_count = TrueSum(k)

C3_Witness ==
    /\ Returned
    /\ \E k \in TileKeys :
           /\ Len(k) = 2
           /\ Cardinality(KeysUnder(k)) = 2
           /\ binary_hash_tiles[k].node_count = 2

(* C4 - Capacity bound: every tile of the map has node_count <= capacity,
   except the tiles inserted after the last level; those have a key of
   length binary_hash_precision and a node_count above the capacity. *)
C4_CapacityBound ==
    \A k \in TileKeys :
        IF k \in leaf_keys
        THEN /\ Len(k) = binary_hash_precision
             /\ binary_hash_tiles[k].node_count > max_allowed_features_in_binary_hash
        ELSE binary_hash_tiles[k].node_count <= max_allowed_features_in_binary_hash

C4_Witness ==
    /\ Returned
    /\ max_allowed_features_in_binary_hash >= 1
    /\ leaf_keys # {}
    /\ TileKeys \ leaf_keys # {}

(* C5 - Coarsest-sufficient: for every tile with a key of length L >= 2 that
   was emitted by a level of the loop, the keys of binary_hash_count below
   the key's prefix of length L - 1 count more than the capacity. *)
C5_CoarsestSufficient ==
    \A k \in TileKeys \ leaf_keys :
        Len(k) >= 2 =>
            TrueSum(Prefix(k, Len(k) - 1)) > max_allowed_features_in_binary_hash

C5_Witness ==
    /\ Returned
    /\ \E k \in TileKeys \ leaf_keys : Len(k) = 3
    /\ \E k \in TileKeys \ leaf_keys : Len(k) = 2

(* C6 - Idempotence and determinism: no step of get_tiles changes
   binary_hash_count, binary_hash_precision or the capacity, and a get_tiles
   that returns with no add_coordinate since the previous return gives the
   same map as the previous one, whatever orders the keys and the groups
   were enumerated in. *)
C6_Idempotent ==
    [][ /\ (pc = "loop" \/ pc' = "loop") =>
               UNCHANGED <<binary_hash_count, binary_hash_precision,
                           max_allowed_features_in_binary_hash>>
        /\ (pc' = "done" /\ previous' # <<>>) => binary_hash_tiles' = previous'[1]
      ]_vars

C6_Witness ==
    /\ Returned
    /\ previous # <<>>
    /\ Cardinality(Keys) >= 3
    /\ Cardinality(TileKeys) >= 2
    /\ leaf_keys # {}

(* C7 - Coarse resolution at level 1: for each first symbol s, when between
   1 and capacity coordinates have a hash starting with s, the returned map
   has exactly one key starting with s, the key <<s>>, with that number as
   its node_count. *)
C7_CoarseResolution ==
    Returned =>
        \A s \in {0, 1} :
            (TrueSum(<<s>>) >= 1 /\ TrueSum(<<s>>) <= max_allowed_features_in_binary_hash)
            => /\ {k \in TileKeys : k[1] = s} = {<<s>>}
               /\ binary_hash_tiles[<<s>>].node_count = TrueSum(<<s>>)

(* C8 - Capacity zero: with capacity 0 and at least one coordinate added, the
   loop emits no tile and the data frame stays the whole count table through
   every level; the returned map has one tile per key of binary_hash_count,
   keyed by the full key, inserted after the last level, with the key's
   count as node_count. *)
C8_CapacityZero ==
    (max_allowed_features_in_binary_hash = 0 /\ NumberOfAdds >= 1) =>
        /\ pc = "loop" =>
               /\ binary_hash_tiles = EmptyMap
               /\ DfTable = CountTable
               /\ Len(binary_hash_count_df) = Cardinality(Keys)
        /\ Returned =>
               /\ TileKeys = Keys
               /\ leaf_keys = Keys
               /\ \A k \in TileKeys :
                      /\ Len(k) = binary_hash_precision
                      /\ binary_hash_tiles[k].node_count = binary_hash_count[k]

C8_Witness ==
    /\ max_allowed_features_in_binary_hash = 0
    /\ Returned
    /\ Cardinality(Keys) = 2
    /\ NumberOfAdds = 3

\* the five coordinates of it_works, each added once
ScenarioAdded == \A location \in ScenarioCoordinates : added[location] = 1

(* C9 as stated - Scenario B: precision 11, capacity 0, the five coordinates
   of the test added: get_tiles returns five tiles with keys of length 11, one per distinct
   hash, each counting the coordinates with that hash. *)
C9_FiveTiles ==
    (ScenarioAdded /\ max_allowed_features_in_binary_hash = 0 /\ Returned) =>
        /\ Cardinality(TileKeys) = 5
        /\ leaf_keys = TileKeys
        /\ \A k \in TileKeys :
               /\ Len(k) = ScenarioPrecision
               /\ binary_hash_tiles[k].node_count =
                      Cardinality({location \in ScenarioCoordinates :
                                       Encode(location, ScenarioPrecision) = k})

(* C9 as amended - Scenario B: the five coordinates share one hash of
   precision 11, 11000000000, so get_tiles returns one tile per distinct
   hash, which is a single tile under that key with node_count 5. *)
C9_OneTilePerHash ==
    (ScenarioAdded /\ max_allowed_features_in_binary_hash = 0 /\ Returned) =>
        /\ TileKeys = {Encode(location, ScenarioPrecision) : location \in ScenarioCoordinates}
        /\ TileKeys = {<<1, 1, 0, 0, 0, 0, 0, 0, 0, 0, 0>>}
        /\ leaf_keys = TileKeys
        /\ \A k \in TileKeys :
               binary_hash_tiles[k].node_count =
                   Cardinality({location \in ScenarioCoordinates :
                                    Encode(location, ScenarioPrecision) = k})

C9_Witness ==
    /\ ScenarioAdded
    /\ max_allowed_features_in_binary_hash = 0
    /\ Returned

(* C10 - Boundary policy and partition: at every level and for every
   capacity, each prefix group of the data frame is emitted as a tile with
   all its members leaving the frame exactly when its sum is <= capacity,
   and keeps all its members with their counts exactly when its sum is
   above the capacity. *)
C10_Partition ==
    [][ (pc = "loop" /\ i < binary_hash_precision) =>
            \A g \in SlicedBinaryHashes(binary_hash_count_df, i + 1) :
                LET row     == GroupedRow(binary_hash_count_df, i + 1, g)
                    members == {r \in DfTable : Prefix(r.binary_hash, i + 1) = g}
                    kept    == members \subseteq
                                   {binary_hash_count_df'[j] : j \in 1..Len(binary_hash_count_df')}
                    dropped == \A j \in 1..Len(binary_hash_count_df') :
                                   binary_hash_count_df'[j] \notin members
                    emitted == /\ g \in DOMAIN binary_hash_tiles'
                               /\ binary_hash_tiles'[g].node_count = row.total_node_count
                IN  IF row.total_node_count <= max_allowed_features_in_binary_hash
                    THEN emitted /\ dropped
                    ELSE kept /\ g \notin DOMAIN binary_hash_tiles'
      ]_vars

====
